---- MODULE Spec2Model ----
(***************************************************************************)
(* Turn-state machine of the chat orchestrator (app/orchestrator.py), its  *)
(* intent router (app/router.py) and its session store                     *)
(* (app/session_manager.py).                                               *)
(*                                                                         *)
(* Conventions.                                                            *)
(*  - A Python string is a sequence of words; None and "" are both <<>>    *)
(*    (the code tests these fields by truthiness only).                    *)
(*  - An Optional[GenerationTask] is a sequence of length 0 (None) or 1.   *)
(*  - A user message is the set of keywords of the code's substring tests  *)
(*    that occur in it; `"kw" in message` is membership.                   *)
(***************************************************************************)
EXTENDS Integers, Sequences, FiniteSets, TLC

\* ------------------------------------------------------------------ bounds
\* A message carries at most this many of the keywords the code looks for.
MaxMsgTokens == 2

\* /chat requests of one session that are in flight at the same time.
MaxRequests == 2

\* ------------------------------------------------------------ value types
NONE == <<>>

IsSet(s) == s # <<>>

\* Keywords the code searches for in a message (Korean keywords are named by
\* their meaning): dontcare = 몰라/모르/상관없/아무/랜덤/그냥/대충, photo = 실사/포토/photo,
\* anime = 만화/애니/anime, illustration = 일러스트/illustration, sitting = 앉아/sitting,
\* standing = 서있/standing, guard = 지키/guard, park = 공원/park, street = 거리/street,
\* night = 밤/night, dog = 강아지/dog, cat = 고양이/cat, shepherd = 셰퍼드/german shepherd,
\* newmake = a match of the "new ... make" pattern, prohibited = a match of a
\* prohibited pattern, name = a self-introduction a name can be extracted from,
\* regenerate = the whole message is 다시 생성 / 재생성 / regenerate.
\* The operators test every keyword as the code does; the messages that are
\* followed are built from one keyword of each kind.
Vocabulary ==
    {"dontcare", "photo", "sitting", "cat", "newmake", "prohibited", "name", "regenerate"}

Messages ==
    { m \in SUBSET Vocabulary :
        /\ Cardinality(m) <= MaxMsgTokens
        /\ "regenerate" \in m => m = {"regenerate"} }

\* schemas.py: GenerationTask
NewTask(intent) ==
    [intent |-> intent, object |-> NONE, style |-> NONE, mood |-> NONE,
     pose |-> NONE, bg |-> NONE, size |-> <<"1024x1024">>, prompt_en |-> NONE,
     image_path |-> NONE, mask_path |-> NONE, selection_path |-> NONE]

\* schemas.py: GenerationTask.is_complete
is_complete(task) ==
    IF task.intent = "generate"
    THEN IsSet(task.object) /\ IsSet(IF IsSet(task.style) THEN task.style ELSE <<"photo">>)
    ELSE IF task.intent = "edit"
    THEN IsSet(task.image_path) /\ (IsSet(task.mask_path) \/ IsSet(task.prompt_en))
    ELSE FALSE

\* --------------------------------------------------------- slot extraction
\* An extractor that looks for the slot keywords first and takes the don't-care
\* bundle only for a message without any.
_extract_slots_KeywordsFirst(msg) ==
    IF "dontcare" \in msg /\ msg \cap {"photo", "anime", "illustration", "sitting",
                                        "standing", "guard", "park", "street", "night"} = {}
    THEN [style |-> <<"illustration">>, pose |-> <<"sitting">>,
          bg |-> <<"white", "background">>, mood |-> <<"cute">>]
    ELSE [style |-> IF "photo" \in msg THEN <<"photo">> ELSE NONE,
          pose  |-> IF "sitting" \in msg THEN <<"sitting">> ELSE NONE,
          bg    |-> IF "park" \in msg THEN <<"park">> ELSE NONE,
          mood  |-> NONE]

\* orchestrator.py: _extract_slots_from_message. A key that is absent from the
\* returned dict is <<>> here (an extracted value is never empty).
_extract_slots_from_message(msg) ==
    IF "dontcare" \in msg
    THEN [style |-> <<"illustration">>, pose |-> <<"sitting">>,
          bg |-> <<"white", "background">>, mood |-> <<"cute">>]
    ELSE [style |-> IF "photo" \in msg THEN <<"photo">>
                    ELSE IF "anime" \in msg THEN <<"anime">>
                    ELSE IF "illustration" \in msg THEN <<"illustration">>
                    ELSE NONE,
          pose  |-> IF "sitting" \in msg THEN <<"sitting">>
                    ELSE IF "standing" \in msg THEN <<"standing">>
                    ELSE IF "guard" \in msg THEN <<"standing", "guard">>
                    ELSE NONE,
          bg    |-> IF "park" \in msg THEN <<"park">>
                    ELSE IF "street" \in msg THEN <<"street">>
                    ELSE IF "night" \in msg THEN <<"night", "street">>
                    ELSE NONE,
          mood  |-> NONE]

\* orchestrator.py: `for key, value in slots.items(): setattr(pending, key, value)`
MergeSlots(task, slots) ==
    [task EXCEPT !.style = IF IsSet(slots.style) THEN slots.style ELSE @,
                 !.pose  = IF IsSet(slots.pose)  THEN slots.pose  ELSE @,
                 !.bg    = IF IsSet(slots.bg)    THEN slots.bg    ELSE @,
                 !.mood  = IF IsSet(slots.mood)  THEN slots.mood  ELSE @]

\* The object keyword chain shared by _create_basic_task and _fill_defaults.
ObjectOf(msg, dflt) ==
    IF "dog" \in msg THEN <<"dog">>
    ELSE IF "cat" \in msg THEN <<"cat">>
    ELSE IF "shepherd" \in msg THEN <<"German", "shepherd">>
    ELSE dflt

\* orchestrator.py: _create_basic_task
_create_basic_task(msg) ==
    [NewTask("generate") EXCEPT !.object = ObjectOf(msg, <<"subject">>)]

\* Defaults that are written over the style the task already has.
_fill_defaults_Overwrite(task, msg) ==
    [task EXCEPT
        !.object = IF IsSet(@) THEN @ ELSE ObjectOf(msg, <<"cute", "character">>),
        !.style  = <<"illustration">>,
        !.pose   = IF IsSet(@) THEN @ ELSE <<"standing">>,
        !.bg     = IF IsSet(@) THEN @ ELSE <<"plain", "white">>,
        !.mood   = IF IsSet(@) THEN @ ELSE <<"cute">>]

\* orchestrator.py: _fill_defaults
_fill_defaults(task, msg) ==
    [task EXCEPT
        !.object = IF IsSet(@) THEN @ ELSE ObjectOf(msg, <<"cute", "character">>),
        !.style  = IF IsSet(@) THEN @ ELSE <<"illustration">>,
        !.pose   = IF IsSet(@) THEN @ ELSE <<"standing">>,
        !.bg     = IF IsSet(@) THEN @ ELSE <<"plain", "white">>,
        !.mood   = IF IsSet(@) THEN @ ELSE <<"cute">>]

\* A check that looks at the intent alone.
_has_minimum_fields_IntentOnly(task) ==
    task.intent \in {"generate", "edit"}

\* orchestrator.py: _has_minimum_fields
_has_minimum_fields(task) ==
    IsSet(task.object) /\ task.intent \in {"generate", "edit"}

\* orchestrator.py: _wants_generate_override
_wants_generate_override(msg) == "newmake" \in msg

\* safety.py: detect_prohibited
detect_prohibited(msg) == "prohibited" \in msg

\* onboarding_service.py: extract_user_name
extract_user_name(msg) == IF "name" \in msg THEN <<"name">> ELSE NONE

\* ----------------------------------------------------------- prompt builder
Lower(w) ==
    CASE w = "Anime" -> "anime"
      [] w = "PHOTO" -> "photo"
      [] OTHER -> w

LowerAll(s) == [i \in 1..Len(s) |-> Lower(s[i])]

MoodDesc(mood) ==
    CASE mood = <<"cute">>  -> <<"cute", "adorable", "whimsical", "soft", "pastel", "colors", "warm", "cozy">>
      [] mood = <<"brave">> -> <<"brave", "heroic">>
      [] mood = <<"calm">>  -> <<"calm", "serene">>
      [] mood = <<"cool">>  -> <<"cool", "stylish">>
      [] OTHER -> mood

Or(s, dflt) == IF IsSet(s) THEN s ELSE dflt

\* orchestrator.py: _build_prompt
_build_prompt(task) ==
    LET obj   == Or(task.object, <<"subject">>)
        pose  == Or(task.pose, <<"standing">>)
        bg    == Or(task.bg, <<"plain", "white", "background">>)
        mood  == MoodDesc(Or(task.mood, <<"cute">>))
        style == LowerAll(Or(task.style, <<"illustration">>))
        body  == <<"of", "a">> \o obj \o pose \o <<"in">> \o bg \o mood
    IN  IF style \in {<<"anime">>, <<"cartoon">>}
        THEN <<"anime", "style", "illustration">> \o body \o <<"cel-shaded", "high", "quality">>
        ELSE IF style \in {<<"illustration">>, <<"illustr">>, <<"vector">>}
        THEN <<"flat", "vector", "illustration">> \o body \o <<"minimal", "shading", "high", "quality">>
        ELSE IF style \in {<<"pencil">>, <<"sketch">>}
        THEN <<"pencil", "sketch">> \o body \o <<"graphite", "shading", "high", "quality">>
        ELSE IF style \in {<<"3d">>, <<"3d", "render">>}
        THEN <<"3D", "render">> \o body \o <<"soft", "studio", "lighting", "high", "quality">>
        ELSE <<"highly", "detailed", "photorealistic", "photograph">> \o body
                \o <<"50mm", "lens", "high", "quality">>

\* orchestrator.py: the prompt of the forced run (ask after a question was asked)
ForcedPrompt(task) ==
    <<"A">> \o Or(task.style, <<"illustration">>) \o <<"style">>
        \o Or(task.object, <<"subject">>) \o <<"in">>
        \o Or(task.bg, <<"white", "background">>)
        \o Or(task.pose, <<"natural", "pose">>)
        \o <<"cute", "warm", "cozy", "high", "quality">>

\* ------------------------------------------------------------------ router
\* What the text-completion collaborator does on one call: it raises (transport
\* error, timeout, authentication), returns text that is not JSON, returns JSON
\* that is not an object, or returns a JSON object. An object has next_action
\* ("" when absent, "bogus" for an unknown value) and maybe a task; a raw task
\* has the fields of GenerationTask with intent possibly invalid and size
\* possibly absent.
ImagePath == <<"/static/outputs/in.png">>
LastUrl == <<"/static/outputs/last.png">>
MaskPath == <<"/static/outputs/mask.png">>
SelectionPath == <<"/static/outputs/selection.png">>
LlmPrompt == <<"llm", "prompt">>

RawTasks ==
    { [NewTask("generate") EXCEPT !.object = o, !.style = st, !.prompt_en = p, !.size = NONE]
        : o \in {NONE, <<"cat">>}, st \in {NONE, <<"Anime">>}, p \in {NONE, LlmPrompt} }
    \cup { [NewTask("edit") EXCEPT !.object = o, !.prompt_en = p, !.image_path = ip,
                                   !.size = NONE]
        : o \in {NONE, <<"cat">>}, p \in {NONE, LlmPrompt}, ip \in {NONE, ImagePath} }
    \cup { [NewTask("chat") EXCEPT !.object = <<"cat">>] }

LlmResponses ==
    { [kind |-> k, na |-> "", task |-> <<>>] : k \in {"raise", "text", "array"} }
    \cup { [kind |-> "object", na |-> na, task |-> <<>>]
            : na \in {"", "bogus", "chat", "ask", "run"} }
    \cup { [kind |-> "object", na |-> "run", task |-> <<t>>] : t \in RawTasks }

Has(s, w) == \E i \in 1..Len(s) : Lower(s[i]) = w

\* router.py: normalize_style
normalize_style(s) ==
    IF ~IsSet(s) THEN <<"photo">>
    ELSE IF Has(s, "anime") \/ Has(s, "cartoon") THEN <<"anime">>
    ELSE IF Has(s, "illustr") \/ Has(s, "illustration") THEN <<"illustration">>
    ELSE IF Has(s, "photo") \/ Has(s, "realistic") THEN <<"photo">>
    ELSE IF Has(s, "3d") THEN <<"3d">>
    ELSE <<"photo">>

\* The result of a call: exc is the exception that leaves the function ("" when
\* it returns), from_pending says that the returned task is the very object
\* that was passed in as pending.
Returned(na, task, fromPending) ==
    [exc |-> "", next_action |-> na, task |-> task, from_pending |-> fromPending]
Raised(exc) ==
    [exc |-> exc, next_action |-> "", task |-> <<>>, from_pending |-> FALSE]

\* A fallback that asks when it is uncertain and nothing is pending.
RouterFallback_Ask(pending) ==
    IF pending # <<>> THEN Returned("run", pending, TRUE)
    ELSE Returned("ask", <<>>, FALSE)

\* router.py: the fallback of both except/else branches of route_with_llm
RouterFallback(pending) ==
    IF pending # <<>> THEN Returned("run", pending, TRUE)
    ELSE Returned("chat", <<>>, FALSE)

\* router.py: route_with_llm lines 154-170, the interpretation of parsed JSON
RouterInterpret(data) ==
    IF data.kind = "array" THEN Raised("AttributeError")
    ELSE IF data.na = "run" /\ data.task # <<>>
    THEN LET raw == data.task[1] IN
         IF raw.intent \notin {"generate", "edit"} THEN Raised("ValidationError")
         ELSE LET t1 == [raw EXCEPT !.size = IF IsSet(@) THEN @ ELSE <<"1024x1024">>]
                  t2 == [t1 EXCEPT !.style = IF IsSet(@) THEN normalize_style(@) ELSE @]
              IN Returned("run", <<t2>>, FALSE)
    ELSE IF data.na = "ask" THEN Returned("ask", <<>>, FALSE)
    ELSE Returned("chat", <<>>, FALSE)

\* router.py: route_with_llm. resp is what the collaborator does if it is called.
route_with_llm(pending, openaiKey, geminiKey, resp) ==
    IF ~openaiKey /\ ~geminiKey THEN RouterFallback(pending)
    ELSE IF resp.kind \in {"raise", "text"} THEN RouterFallback(pending)
    ELSE RouterInterpret(resp)

\* llm_router.py: the fallback of route_with_llm (no key, a raising
\* collaborator, text json.loads rejects)
llm_router_fallback(pending) ==
    IF pending # <<>> THEN Returned("run", pending, TRUE)
    ELSE Returned("ask", <<>>, FALSE)

\* llm_router.py: route_with_llm. question: the parsed object has a
\* clarify_question.
llm_router_route_with_llm(pending, openaiKey, geminiKey, resp, question) ==
    IF ~openaiKey /\ ~geminiKey THEN llm_router_fallback(pending)
    ELSE IF resp.kind \in {"raise", "text"} THEN llm_router_fallback(pending)
    ELSE IF resp.kind = "array" THEN Raised("AttributeError")
    ELSE IF resp.na = "run" /\ resp.task # <<>> THEN RouterInterpret(resp)
    ELSE IF resp.na = "ask" /\ question THEN Returned("ask", <<>>, FALSE)
    ELSE Returned("chat", <<>>, FALSE)

\* chat_service_new.py lines 213-273: the first turn of a session without a
\* pending task and without a question asked. A decision of run is turned into
\* ask; ask stores the basic task with asked = True and returns the question.
\* The value says whether the turn opens a clarification cycle.
new_first_turn_asks(decision) ==
    decision.exc = "" /\ decision.next_action \in {"run", "ask"}

\* ----------------------------------------------------------- session store
\* session_manager.py: SessionContext (the fields the turn logic reads)
NewSession(onboarded) ==
    [is_onboarded |-> onboarded, user_name |-> NONE,
     asked_once |-> FALSE, pending_task |-> <<>>]

\* session_manager.py: SessionContext.mark_onboarded
mark_onboarded(sess, name) ==
    [sess EXCEPT !.user_name = name, !.is_onboarded = TRUE]

\* A store that records the task but not that a question was asked.
set_pending_task_NoFlag(sess, task) ==
    [sess EXCEPT !.pending_task = <<task>>]

\* session_manager.py: SessionContext.set_pending_task
set_pending_task(sess, task) ==
    [sess EXCEPT !.pending_task = <<task>>, !.asked_once = TRUE]

\* session_manager.py: SessionContext.clear_pending_task
clear_pending_task(sess) ==
    [sess EXCEPT !.pending_task = <<>>]

\* ------------------------------------------------------- the turn's outcome
\* What one call of orchestrate did. kind is the reply that was returned
\* ("onboarding", "refusal", "question", "general", "chat", "image") or "raise";
\* need_more_info is the flag of the reply's meta; router is the result of the
\* call of route_with_llm (router_calls = 0: not called); calls are the image
\* tools and the agent runner that were called, in order; dispatched is the
\* payload handed to the execution branch's adapter, origin the object it is
\* ("pending": the session's pending task, "router": a task the router built,
\* "attachment": the edit task made for a mask or selection, "recent": the edit
\* task made for the most recent image); status is the status of the adapter's
\* result and prompt the prompt the adapter handed on with the task; decided is
\* the branch of lines 616-685 that made the decision ("" when the turn ended
\* before), task the task of the execution branch after its minimum-field
\* check (lines 798-803).
NoRouter == Raised("")

Outcome(kind, exc) ==
    [kind |-> kind, exc |-> exc, need_more_info |-> FALSE,
     router_calls |-> 0, router |-> NoRouter, router_pending |-> <<>>,
     calls |-> <<>>, dispatched |-> <<>>, origin |-> "", status |-> "",
     prompt |-> NONE, decided |-> "", task |-> <<>>]

\* The locals of orchestrate that later stages read.
Locals(sess, msg, att) ==
    [sess |-> sess, msg |-> msg, att |-> att,
     pending |-> sess.pending_task, was_asked |-> sess.asked_once,
     image_path |-> IF att.image THEN ImagePath ELSE NONE,
     mask_path |-> IF att.mask THEN MaskPath ELSE NONE,
     selection_path |-> IF att.selection THEN SelectionPath ELSE NONE,
     out |-> Outcome("", "")]

Done(c, kind, nmi, savedImage) ==
    [sess |-> c.sess, saved_image |-> savedImage,
     out |-> [c.out EXCEPT !.kind = kind, !.need_more_info = nmi]]

Raise(c, exc) ==
    [sess |-> c.sess, saved_image |-> FALSE,
     out |-> [c.out EXCEPT !.kind = "raise", !.exc = exc]]

\* A reply with an image: the image message is appended to the log unless the
\* store fails (the failure is logged and the reply is returned all the same).
ImageReply(c) == { Done(c, "image", FALSE, saved) : saved \in BOOLEAN }

\* ------------------------------------------------------- execution adapter
\* The result of a tool call: exc is the exception that leaves the function
\* ("" when it returns), status the status of the returned dict.
ToolReturned(status) == [exc |-> "", status |-> status]
ToolRaised(exc) == [exc |-> exc, status |-> ""]

\* What the settings hold for the image client: a usable key, no key, the
\* placeholder "your-api...", or Azure switched on with a setting missing.
ClientSettings == {"key", "missing", "placeholder", "azure_incomplete"}

\* What the image API does on one call: it answers with base64 data, with a
\* URL, with an entry that holds neither, or the transport fails.
ImageApi == {"b64", "url", "nodata", "raise"}

\* tools.py: _get_client
_get_client(settings) ==
    IF settings = "key" THEN ToolReturned("client") ELSE ToolRaised("ValueError")

\* tools.py: generate_image_tool. A response without image data makes
\* _save_url_png(None) raise inside the try.
generate_image_tool(prompt, settings, api) ==
    IF ~IsSet(prompt) THEN ToolReturned("error")
    ELSE IF _get_client(settings).exc # "" THEN ToolRaised(_get_client(settings).exc)
    ELSE IF api \in {"b64", "url"} THEN ToolReturned("ok")
    ELSE ToolReturned("error")

\* tools.py: _images_edit_rest. The key is read again from the settings; the
\* image file is opened before the try.
_images_edit_rest(image_path, settings, api) ==
    IF settings = "missing" THEN ToolReturned("error")
    ELSE IF ~IsSet(image_path) THEN ToolRaised("FileNotFoundError")
    ELSE IF api \in {"b64", "url"} THEN ToolReturned("ok")
    ELSE ToolReturned("error")

\* tools.py: edit_image_tool. maskOk: the mask can be built from the selection.
edit_image_tool(image_path, prompt, mask_path, selection_path, settings, api, maskOk) ==
    IF ~IsSet(prompt) THEN ToolReturned("error")
    ELSE IF _get_client(settings).exc # "" THEN ToolRaised(_get_client(settings).exc)
    ELSE IF ~IsSet(mask_path) /\ IsSet(selection_path) /\ ~maskOk THEN ToolReturned("error")
    ELSE LET r == _images_edit_rest(image_path, settings, api)
         IN IF r.exc # "" THEN ToolReturned("error") ELSE r

\* tools.py: generate_image_tool / edit_image_tool as the callers see them:
\* an empty prompt is an error result, otherwise the synthesis succeeds or not.
ToolStatus(prompt) == IF IsSet(prompt) THEN {"ok", "error"} ELSE {"error"}

ToolName(payload) ==
    IF payload.intent = "generate" THEN "generate_image_tool" ELSE "edit_image_tool"

\* adk.py: adk_run. "unavailable": the agent is not installed or not
\* initialised and the function falls off its end (returns None); "available":
\* the agent answers with a dict, or fails and the local tools are called with
\* the payload's prompt_en. prompt is the prompt that went with the task: the
\* payload's own in every case.
adk_run(payload, adk) ==
    IF adk = "unavailable"
    THEN { [calls |-> <<"adk_run">>, status |-> "none", prompt |-> payload.prompt_en] }
    ELSE { [calls |-> <<"adk_run">>, status |-> st, prompt |-> payload.prompt_en]
             : st \in {"ok", "error"} }
         \cup { [calls |-> <<"adk_run", ToolName(payload)>>, status |-> st,
                  prompt |-> payload.prompt_en]
                 : st \in ToolStatus(payload.prompt_en) }

\* orchestrator.py lines 845-894: the agent runner first, the direct tools when
\* it is switched off (USE_ADK); the direct path composes a missing prompt.
RunAdapter(c, task, payload, adk) ==
    IF adk # "disabled" THEN adk_run(payload, adk)
    ELSE LET raw == IF IsSet(payload.prompt_en) THEN payload.prompt_en
                    ELSE IF task.intent = "edit"
                            /\ (IsSet(task.selection_path) \/ IsSet(task.mask_path))
                    THEN <<"edit", "instruction">>
                    ELSE _build_prompt(task)
         IN { [calls |-> <<ToolName(payload)>>, status |-> st, prompt |-> raw]
                : st \in ToolStatus(raw) }

\* orchestrator.py lines 797-921: the execution branch.
Execute(c, task0, origin, env) ==
    LET t1 == IF ~_has_minimum_fields(task0) THEN _fill_defaults(task0, c.msg) ELSE task0
        t2 == IF t1.intent = "edit"
              THEN [t1 EXCEPT
                      !.image_path = IF IsSet(c.image_path) /\ ~IsSet(@) THEN c.image_path ELSE @,
                      !.mask_path = IF IsSet(c.mask_path) /\ ~IsSet(@) THEN c.mask_path ELSE @,
                      !.selection_path = IF IsSet(c.selection_path) /\ ~IsSet(@)
                                         THEN c.selection_path ELSE @]
              ELSE t1
        c1 == [c EXCEPT !.sess = clear_pending_task(@), !.out.origin = origin,
                        !.out.task = <<t1>>]
        NeedImage == t2.intent = "edit" /\ ~IsSet(t2.image_path) /\ ~env.hasImage
        p1 == IF t2.intent = "edit" /\ ~IsSet(t2.image_path)
              THEN [t2 EXCEPT !.image_path = LastUrl] ELSE t2
        NeedSpec == t2.intent = "edit" /\ ~IsSet(p1.prompt_en)
        \* _build_edit_spec: without a key or when the collaborator fails, the
        \* conservative spec has a missing field; otherwise the collaborator decides.
        SpecMissing == IF env.openaiKey THEN BOOLEAN ELSE {TRUE}
        Dispatch(payload) ==
            UNION { LET c2 == [c1 EXCEPT !.out.calls = @ \o r.calls,
                                         !.out.dispatched = <<payload>>,
                                         !.out.status = r.status,
                                         !.out.prompt = r.prompt]
                    IN IF r.status = "ok" THEN ImageReply(c2)
                       ELSE { Raise(c2, "ImageGenerationError") }
                  : r \in RunAdapter(c1, t2, payload, env.adk) }
    IN  IF NeedImage THEN { Done(c1, "question", TRUE, FALSE) }
        ELSE IF NeedSpec
        THEN UNION { IF missing THEN { Done(c1, "question", TRUE, FALSE) }
                     ELSE Dispatch([p1 EXCEPT !.prompt_en = <<"edit", "spec", "prompt">>])
                   : missing \in SpecMissing }
        ELSE Dispatch(p1)

\* ------------------------------------------------------------ orchestrate
\* orchestrator.py lines 768-795: the chat branch.
ChatBranch(c, env) ==
    IF ~env.openaiKey THEN { Raise(c, "ValueError") }
    ELSE { Done(c, "chat", FALSE, FALSE) }

\* An ask branch that asks again when a question was already asked.
AskBranch_Reask(c, env) ==
    IF ~c.was_asked \/ c.pending # <<>>
    THEN LET task == IF c.pending = <<>> THEN _create_basic_task(c.msg) ELSE c.pending[1]
             c1 == [c EXCEPT !.sess = set_pending_task(@, task)]
         IN { Done(c1, "question", TRUE, FALSE) }
    ELSE { Done(c, "general", FALSE, FALSE) }

\* orchestrator.py lines 690-766: the ask branch.
AskBranch(c, env) ==
    IF ~c.was_asked
    THEN LET task == IF c.pending = <<>> THEN _create_basic_task(c.msg) ELSE c.pending[1]
             c1 == [c EXCEPT !.sess = set_pending_task(@, task)]
         IN { Done(c1, "question", TRUE, FALSE) }
    ELSE IF c.pending # <<>>
    THEN LET merged == MergeSlots(c.pending[1], _extract_slots_from_message(c.msg))
             task == [merged EXCEPT !.prompt_en = ForcedPrompt(merged)]
         IN Execute(c, task, "pending", env)
    ELSE { Done(c, "general", FALSE, FALSE) }

\* A dispatch that clarifies before any first run.
Act_AskBeforeRun(c, na, task, origin, env) ==
    IF na = "ask" \/ (na = "run" /\ ~c.was_asked) THEN AskBranch(c, env)
    ELSE IF na = "chat" THEN ChatBranch(c, env)
    ELSE Execute(c, task[1], origin, env)

\* The three branches on the decision's next_action.
Act(c, na, task, origin, env) ==
    IF na = "ask" THEN AskBranch(c, env)
    ELSE IF na = "chat" THEN ChatBranch(c, env)
    ELSE Execute(c, task[1], origin, env)

\* What the collaborator may answer to the router's call.
RouterResults(pending, env) ==
    { route_with_llm(pending, env.openaiKey, env.geminiKey, resp) : resp \in LlmResponses }

Routed(c, rr, pending) ==
    [c EXCEPT !.out.router_calls = @ + 1, !.out.router = rr,
              !.out.router_pending = pending]

\* orchestrator.py lines 620-647: first turn, no pending task and nothing asked.
FirstTurn(c, env) ==
    UNION { LET c1 == Routed(c, rr, <<>>) IN
            IF rr.exc # "" THEN { Raise(c1, rr.exc) }
            ELSE IF rr.next_action = "chat"
            THEN UNION { IF edit /\ env.hasImage
                         THEN Execute(c1, [NewTask("edit") EXCEPT !.image_path = LastUrl],
                                      "recent", env)
                         ELSE ChatBranch(c1, env)
                       : edit \in IF env.openaiKey THEN BOOLEAN ELSE {FALSE} }
            ELSE Act(c1, rr.next_action, rr.task, "router", env)
          : rr \in RouterResults(<<>>, env) }

\* orchestrator.py lines 650-669: a question was asked and a task is pending.
SecondTurn(c, env) ==
    UNION { LET c1 == Routed(c, rr, c.pending) IN
            IF rr.exc # "" THEN { Raise(c1, rr.exc) }
            ELSE IF rr.next_action = "run"
            THEN LET merged == MergeSlots(c.pending[1], _extract_slots_from_message(c.msg))
                     pend == [merged EXCEPT !.prompt_en = _build_prompt(merged)]
                     c2 == [c1 EXCEPT !.pending = <<pend>>, !.sess.pending_task = <<pend>>]
                 IN IF rr.from_pending THEN Execute(c2, pend, "pending", env)
                    ELSE Execute(c2, rr.task[1], "router", env)
            ELSE IF rr.next_action = "chat"
            THEN ChatBranch([c1 EXCEPT !.sess = clear_pending_task(@)], env)
            ELSE AskBranch(c1, env)
          : rr \in RouterResults(c.pending, env) }

\* orchestrator.py lines 670-681: a task is pending and nothing was asked.
PendingFastRun(c, env) ==
    LET merged == MergeSlots(c.pending[1], _extract_slots_from_message(c.msg))
        task == IF merged.intent = "generate"
                THEN LET f == _fill_defaults(merged, c.msg)
                     IN [f EXCEPT !.prompt_en = _build_prompt(f)]
                ELSE merged
    IN Execute([c EXCEPT !.pending = <<task>>, !.sess.pending_task = <<task>>],
               task, "pending", env)

\* orchestrator.py lines 682-685: a question was asked earlier, nothing is pending.
LaterTurn(c, env) ==
    UNION { LET c1 == Routed(c, rr, <<>>) IN
            IF rr.exc # "" THEN { Raise(c1, rr.exc) }
            ELSE Act(c1, rr.next_action, rr.task, "router", env)
          : rr \in RouterResults(<<>>, env) }

\* orchestrator.py lines 616-685: how the decision is made.
Decide(c, synthesized, env) ==
    LET At(branch) == [c EXCEPT !.out.decided = branch] IN
    IF c.pending # <<>> /\ c.pending[1].intent = "edit"
       /\ (IsSet(c.pending[1].selection_path) \/ IsSet(c.pending[1].mask_path))
    THEN Execute(At("edit_pending"), c.pending[1],
                 IF synthesized THEN "attachment" ELSE "pending", env)
    ELSE IF ~c.was_asked /\ c.pending = <<>> THEN FirstTurn(At("first_turn"), env)
    ELSE IF c.was_asked /\ c.pending # <<>> THEN SecondTurn(At("second_turn"), env)
    ELSE IF c.pending # <<>> THEN PendingFastRun(At("pending_not_asked"), env)
    ELSE LaterTurn(At("later_turn"), env)

\* orchestrator.py lines 534-549: a mask or selection came and nothing is pending.
SynthesizeEdit(c, env) ==
    IF (IsSet(c.selection_path) \/ IsSet(c.mask_path)) /\ c.pending = <<>>
    THEN LET task == [NewTask("edit") EXCEPT !.image_path = c.image_path,
                                             !.mask_path = c.mask_path,
                                             !.selection_path = c.selection_path]
         IN Decide([c EXCEPT !.pending = <<task>>, !.was_asked = TRUE,
                             !.sess = set_pending_task(@, task)], TRUE, env)
    ELSE Decide(c, FALSE, env)

\* orchestrator.py lines 522-532: "make a new one" runs the generator at once.
FastGenerate(c, env) ==
    IF _wants_generate_override(c.msg)
    THEN LET c1 == [c EXCEPT !.out.calls = Append(@, "generate_image_tool")]
         IN ImageReply(c1) \cup SynthesizeEdit(c1, env)
    ELSE SynthesizeEdit(c, env)

\* An immediate edit that drops the pending task when it succeeds.
FastEdit_ClearsPending(c, env) ==
    IF IsSet(c.image_path) /\ ~_wants_generate_override(c.msg)
    THEN LET c1 == [c EXCEPT !.out.calls = Append(@, "edit_image_tool")]
         IN ImageReply([c1 EXCEPT !.sess = clear_pending_task(@)]) \cup FastGenerate(c1, env)
    ELSE FastGenerate(c, env)

\* orchestrator.py lines 500-520: an attached image is edited at once.
FastEdit(c, env) ==
    IF IsSet(c.image_path) /\ ~_wants_generate_override(c.msg)
    THEN LET c1 == [c EXCEPT !.out.calls = Append(@, "edit_image_tool")]
         IN ImageReply(c1) \cup FastGenerate(c1, env)
    ELSE FastGenerate(c, env)

\* orchestrator.py lines 923-958: the regenerate handling, the statements after
\* the try statement of the execution branch. A message that is a regenerate
\* request on a session with history makes a new image from the last task;
\* otherwise, and when the tool fails, the function falls off its end.
RegenerateBlock(c, env) ==
    IF c.msg = {"regenerate"} /\ env.hasImage
    THEN LET c1 == [c EXCEPT !.out.calls = Append(@, "generate_image_tool"),
                             !.out.origin = "regenerate"]
         IN ImageReply(c1) \cup { Done(c1, "none", FALSE, FALSE) }
    ELSE { Done(c, "none", FALSE, FALSE) }

\* The turns that leave the branches of lines 500-921 without a return and
\* without an exception go on to line 923; every other turn has ended.
AfterBranches(c, results, env) ==
    UNION { IF r.out.kind = ""
            THEN RegenerateBlock([c EXCEPT !.sess = r.sess, !.out = r.out], env)
            ELSE { r }
          : r \in results }

\* orchestrator.py lines 400-959: one call of orchestrate as chat_endpoint makes
\* it (a session object is passed; intent_override and pending_id are not).
orchestrate(sess, msg, att, env) ==
    LET c == Locals(sess, msg, att) IN
    \* lines 422-453: user and chat-session lookups, not guarded
    { Raise(c, "StoreError") }
    \cup
    (IF ~sess.is_onboarded /\ IsSet(extract_user_name(msg))
     THEN { Done([c EXCEPT !.sess = mark_onboarded(@, extract_user_name(msg))],
                 "onboarding", FALSE, FALSE) }
     ELSE IF detect_prohibited(msg) THEN { Done(c, "refusal", FALSE, FALSE) }
     ELSE AfterBranches(c, FastEdit(c, env), env))

\* ---------------------------------------------------------- the /chat endpoint
\* The response of chat_endpoint: the HTTP status, whether the payload has a
\* "reply", and its "error_code" ("" when it has none).
Payload(status, reply, error_code) ==
    [status |-> status, reply |-> reply, error_code |-> error_code]

NoPayload == Payload(0, FALSE, "")

\* error_handler.py: handle_exception, by the class of the exception; for an
\* OpenAIError the text of the exception chooses the code. development is
\* ENVIRONMENT = "development".
handle_exception(exc, development) ==
    IF exc = "OpenAIError"
    THEN { Payload(500, TRUE, code)
             : code \in {"QUOTA_EXCEEDED", "INVALID_REQUEST", "OPENAI_ERROR"} }
    ELSE IF exc \in {"ChatServiceError", "ImageGenerationError"}
    THEN { Payload(500, TRUE, "UNKNOWN_ERROR") }
    ELSE IF development THEN { Payload(500, TRUE, "DEVELOPMENT_ERROR") }
    ELSE IF exc \in {"KeyError", "APIError"} THEN { Payload(500, TRUE, "API_KEY_ERROR") }
    ELSE IF exc \in {"ConnectionError", "NetworkError"}
    THEN { Payload(500, TRUE, "NETWORK_ERROR") }
    ELSE { Payload(500, TRUE, "UNKNOWN_ERROR") }

\* The framework's answer to an exception that leaves chat_endpoint: status
\* 500 with the plain text "Internal Server Error".
Unhandled == Payload(500, FALSE, "")

\* How a /chat request carries its message: as a form field, or in a body that
\* is a JSON object, a JSON array, or not JSON.
Bodies == {"form", "object", "array", "malformed"}

\* main.py lines 83-87: the exception of reading the message from the body
\* ("" when there is none).
body_error(body) ==
    IF body = "malformed" THEN "JSONDecodeError"
    ELSE IF body = "array" THEN "AttributeError"
    ELSE ""

\* main.py: get_session_id. cookie is the sid cookie of the request (NONE when
\* there is none), fresh the value uuid4 gives.
get_session_id(session_id, cookie, fresh) ==
    IF IsSet(session_id) THEN session_id
    ELSE IF IsSet(cookie) THEN cookie
    ELSE fresh

\* main.py line 76: the default of the form field session_id.
FormDefault == <<"default">>

\* main.py lines 76-90: the session identifier of a request. field is the
\* session_id the request supplies: given says that it supplies one.
request_sid(field, cookie, fresh) ==
    get_session_id(IF field.given THEN field.value ELSE FormDefault, cookie, fresh)

\* The await expressions of a /chat request: the coroutine gives the event
\* loop away at "request.json" (main.py line 84, the body is read from the
\* connection); "orchestrate" (main.py line 99) runs a coroutine that has no
\* await of its own, so it runs through.
Yields_Everywhere(point) == TRUE

Yields(point) == point = "request.json"

\* ------------------------------------------------------------ state machine
VARIABLES
    session,    \* the SessionContext of the one session that is followed
    hasImage,   \* the message log holds an image message of the assistant
    openaiKey,  \* OPENAI_API_KEY is set
    geminiKey,  \* GOOGLE_API_KEY / GEMINI_API_KEY is set
    adk,        \* "disabled" (USE_ADK off), "unavailable" or "available"
    last,       \* the last turn: its inputs, the session before it, its outcome
    cycleAsks,  \* need_more_info replies since the turn that began without a pending task
    rcall,      \* one call of route_with_llm on its own: its arguments and its result
    pcall,      \* one call of a helper function on its own: its arguments and its result
    conc        \* the event loop of the server: the task it runs and the /chat requests in flight

vars == <<session, hasImage, openaiKey, geminiKey, adk, last, cycleAsks, rcall, pcall, conc>>

Attachments == [image : BOOLEAN, mask : BOOLEAN, selection : BOOLEAN]

NoAttachment == [image |-> FALSE, mask |-> FALSE, selection |-> FALSE]

Env == [openaiKey |-> openaiKey, geminiKey |-> geminiKey, adk |-> adk,
        hasImage |-> hasImage]

TurnRecord(msg, att, pre, out) ==
    [msg |-> msg, att |-> att, pre |-> pre, out |-> out]

RouterCall(pending, okey, gkey, resp, result) ==
    [called |-> TRUE, pending |-> pending, openaiKey |-> okey, geminiKey |-> gkey,
     resp |-> resp, result |-> result]

HelperCall(op, in, out) == [op |-> op, in |-> in, out |-> out]

NoHelperCall == HelperCall("", <<>>, <<>>)

NoCall ==
    [called |-> FALSE, pending |-> <<>>, openaiKey |-> FALSE, geminiKey |-> FALSE,
     resp |-> [kind |-> "raise", na |-> "", task |-> <<>>], result |-> NoRouter]

\* One /chat request in flight: where its coroutine stands, its message, how
\* the message is carried, the pending task and asked_once that orchestrate
\* read (lines 489-490), and the response.
Request(pc, msg, body, pending, was_asked, resp) ==
    [pc |-> pc, msg |-> msg, body |-> body, pending |-> pending,
     was_asked |-> was_asked, resp |-> resp]

NoRequest == Request("idle", {}, "", <<>>, FALSE, NoPayload)

Clients == 1..MaxRequests

\* running: the request whose coroutine the event loop is running (0: none).
NoRequests == [running |-> 0, req |-> [i \in Clients |-> NoRequest]]

\* session_manager.py: SessionManager.get_session makes the context on first
\* contact; the stored onboarding row gives is_onboarded, nothing ever stores
\* asked_once = true, and a new context has no pending task.
Init ==
    /\ session \in { NewSession(o) : o \in BOOLEAN }
    /\ hasImage \in BOOLEAN
    /\ openaiKey \in BOOLEAN
    /\ geminiKey \in BOOLEAN
    /\ adk \in {"disabled", "unavailable", "available"}
    /\ last = TurnRecord({}, NoAttachment, session, Outcome("", ""))
    /\ cycleAsks = 0
    /\ rcall = NoCall
    /\ pcall = NoHelperCall
    /\ conc = NoRequests

Idle == last.out.kind = ""

\* main.py: chat_endpoint handles one /chat request: one call of orchestrate on
\* the session's context.
Turn ==
    /\ Idle
    /\ \E msg \in Messages, att \in Attachments :
         \E r \in orchestrate(session, msg, att, Env) :
           /\ session' = r.sess
           /\ hasImage' = (hasImage \/ r.saved_image)
           /\ last' = TurnRecord(msg, att, session, r.out)
           /\ cycleAsks' = (IF session.pending_task = <<>> THEN 0 ELSE cycleAsks)
                             + (IF r.out.need_more_info THEN 1 ELSE 0)
           /\ UNCHANGED <<openaiKey, geminiKey, adk, rcall, pcall, conc>>

\* main.py: chat_endpoint sends the response (the reply, or the error payload
\* when orchestrate raised); the turn's locals are gone, the session stays.
Respond ==
    /\ ~Idle
    /\ last' = TurnRecord({}, NoAttachment, session, Outcome("", ""))
    /\ UNCHANGED <<session, hasImage, openaiKey, geminiKey, adk, cycleAsks, rcall, pcall, conc>>

Next == Turn \/ Respond

Spec == Init /\ [][Next]_vars

\* -------------------------------------------------- the router on its own
\* The pending tasks orchestrate passes to the router: what _create_basic_task
\* stored for the message that was answered with the question.
PendingInputs == { <<>> } \cup { <<_create_basic_task(m)>> : m \in Messages }

RouterInit ==
    /\ session = NewSession(FALSE)
    /\ hasImage = FALSE
    /\ openaiKey = FALSE
    /\ geminiKey = FALSE
    /\ adk = "disabled"
    /\ last = TurnRecord({}, NoAttachment, session, Outcome("", ""))
    /\ cycleAsks = 0
    /\ rcall = NoCall
    /\ pcall = NoHelperCall
    /\ conc = NoRequests

\* router.py: one call route_with_llm(history, last_user, pending)
RouteCall ==
    \E pending \in PendingInputs, okey \in BOOLEAN, gkey \in BOOLEAN, resp \in LlmResponses :
      /\ rcall' = RouterCall(pending, okey, gkey, resp,
                             route_with_llm(pending, okey, gkey, resp))
      /\ UNCHANGED <<session, hasImage, openaiKey, geminiKey, adk, last, cycleAsks, pcall, conc>>

RouterNext == RouteCall

RouterSpec == RouterInit /\ [][RouterNext]_vars

\* ------------------------------------------- the helper functions on their own
\* Values of GenerationTask a helper can be handed: either intent, every slot
\* set or unset.
TaskInputs ==
    { [NewTask(i) EXCEPT !.object = o, !.style = st, !.pose = po, !.bg = bg, !.mood = mo,
                         !.image_path = ip, !.mask_path = mp, !.prompt_en = pr]
        : i \in {"generate", "edit"}, o \in {NONE, <<"cat">>},
          st \in {NONE, <<"anime">>}, po \in {NONE, <<"standing">>},
          bg \in {NONE, <<"park">>}, mo \in {NONE, <<"calm">>},
          ip \in {NONE, ImagePath}, mp \in {NONE, MaskPath},
          pr \in {NONE, LlmPrompt} }

HelperInit ==
    /\ session = NewSession(FALSE)
    /\ hasImage = FALSE
    /\ openaiKey = FALSE
    /\ geminiKey = FALSE
    /\ adk = "disabled"
    /\ last = TurnRecord({}, NoAttachment, session, Outcome("", ""))
    /\ cycleAsks = 0
    /\ rcall = NoCall
    /\ pcall = NoHelperCall
    /\ conc = NoRequests

\* A helper is called once, on the inputs chosen for it; nothing else changes.
HelperIdle == pcall = NoHelperCall

HelperFrame == UNCHANGED <<session, hasImage, openaiKey, geminiKey, adk, last, cycleAsks, rcall, conc>>

\* orchestrator.py: one call _fill_defaults(task, user_msg)
FillDefaultsCall ==
    /\ HelperIdle
    /\ \E t \in TaskInputs, m \in Messages :
         /\ pcall' = HelperCall("_fill_defaults", [task |-> t, msg |-> m], _fill_defaults(t, m))
         /\ HelperFrame

\* orchestrator.py: one merge of the slots of a message into a task
MergeCall ==
    /\ HelperIdle
    /\ \E t \in TaskInputs, m \in Messages :
         /\ pcall' = HelperCall("merge", [task |-> t, msg |-> m],
                                MergeSlots(t, _extract_slots_from_message(m)))
         /\ HelperFrame

\* orchestrator.py: one call _extract_slots_from_message(message)
ExtractSlotsCall ==
    /\ HelperIdle
    /\ \E m \in Messages :
         /\ pcall' = HelperCall("_extract_slots_from_message", [msg |-> m],
                                _extract_slots_from_message(m))
         /\ HelperFrame

\* Values of the style field _build_prompt can meet: unset, the styles the
\* templates are keyed by (in either case), their aliases, and an unknown one.
StyleInputs ==
    { NONE, <<"photo">>, <<"PHOTO">>, <<"anime">>, <<"Anime">>, <<"cartoon">>,
      <<"illustration">>, <<"vector">>, <<"sketch">>, <<"3d">>, <<"watercolor">> }

\* orchestrator.py: one call _build_prompt(task)
BuildPromptCall ==
    /\ HelperIdle
    /\ \E t \in TaskInputs, st \in StyleInputs :
         LET task == [t EXCEPT !.style = st]
         IN /\ pcall' = HelperCall("_build_prompt", [task |-> task], _build_prompt(task))
            /\ HelperFrame

\* What a client sends for session_id (nothing, an empty value, a value) and
\* as sid cookie (nothing, a value of its own).
SidFields ==
    { [given |-> FALSE, value |-> NONE], [given |-> TRUE, value |-> NONE],
      [given |-> TRUE, value |-> <<"s1">>] }

SidCookies(client) == { NONE, <<"cookie", client>> }

\* main.py: two clients each send a /chat request; uuid4 gives each call a
\* value of its own.
SessionIdCall ==
    /\ HelperIdle
    /\ \E f1 \in SidFields, f2 \in SidFields,
          k1 \in SidCookies("a"), k2 \in SidCookies("b") :
         /\ pcall' = HelperCall("get_session_id",
                                [a |-> [field |-> f1, cookie |-> k1],
                                 b |-> [field |-> f2, cookie |-> k2]],
                                [a |-> request_sid(f1, k1, <<"uuid", "a">>),
                                 b |-> request_sid(f2, k2, <<"uuid", "b">>)])
         /\ HelperFrame

\* llm_router.py: one call route_with_llm(history, last_user, pending), and what
\* the first turn of chat_service_new.orchestrate does with its result.
LlmRouterCall ==
    /\ HelperIdle
    /\ \E pending \in PendingInputs, okey \in BOOLEAN, gkey \in BOOLEAN,
          resp \in LlmResponses, question \in BOOLEAN :
         LET d == llm_router_route_with_llm(pending, okey, gkey, resp, question)
         IN /\ pcall' = HelperCall("llm_router.route_with_llm",
                                   [pending |-> pending, openaiKey |-> okey,
                                    geminiKey |-> gkey, resp |-> resp],
                                   [result |-> d,
                                    asks |-> pending = <<>> /\ new_first_turn_asks(d)])
            /\ HelperFrame

\* tools.py: one call generate_image_tool(prompt, size)
GenerateToolCall ==
    /\ HelperIdle
    /\ \E pr \in {NONE, LlmPrompt}, st \in ClientSettings, api \in ImageApi :
         /\ pcall' = HelperCall("generate_image_tool",
                                [prompt |-> pr, settings |-> st, api |-> api],
                                generate_image_tool(pr, st, api))
         /\ HelperFrame

\* tools.py: one call edit_image_tool(image_path, prompt, size, mask_path, selection_path)
EditToolCall ==
    /\ HelperIdle
    /\ \E ip \in {NONE, ImagePath}, pr \in {NONE, LlmPrompt}, mp \in {NONE, MaskPath},
          sp \in {NONE, SelectionPath}, st \in ClientSettings, api \in ImageApi,
          maskOk \in BOOLEAN :
         /\ pcall' = HelperCall("edit_image_tool",
                                [image_path |-> ip, prompt |-> pr, mask_path |-> mp,
                                 selection_path |-> sp, settings |-> st, api |-> api],
                                edit_image_tool(ip, pr, mp, sp, st, api, maskOk))
         /\ HelperFrame

\* adk.py: one call adk_run(task_json, timeout)
AdkRunCall ==
    /\ HelperIdle
    /\ \E t \in TaskInputs, a \in {"unavailable", "available"} :
         \E r \in adk_run(t, a) :
           /\ pcall' = HelperCall("adk_run", [payload |-> t, adk |-> a], r)
           /\ HelperFrame

HelperNext ==
    \/ FillDefaultsCall \/ MergeCall \/ ExtractSlotsCall \/ BuildPromptCall
    \/ GenerateToolCall \/ EditToolCall \/ AdkRunCall \/ SessionIdCall
    \/ LlmRouterCall

HelperSpec == HelperInit /\ [][HelperNext]_vars

\* ------------------------------------- concurrent requests of one session
\* The messages of the requests that are followed concurrently.
EndpointMessages == { m \in Messages : m \subseteq {"cat", "dontcare"} }

EndpointInit ==
    /\ session \in { NewSession(o) : o \in BOOLEAN }
    /\ hasImage = FALSE
    /\ openaiKey \in BOOLEAN
    /\ geminiKey = FALSE
    /\ adk = "disabled"
    /\ last = TurnRecord({}, NoAttachment, session, Outcome("", ""))
    /\ cycleAsks = 0
    /\ rcall = NoCall
    /\ pcall = NoHelperCall
    /\ conc = NoRequests

EndpointFrame == UNCHANGED <<openaiKey, geminiKey, adk, last, cycleAsks, rcall, pcall>>

\* main.py lines 71-84: the event loop starts the coroutine of a request; with
\* the message in a form field it goes on, otherwise it awaits the body.
Receive(i) ==
    /\ conc.running = 0
    /\ conc.req[i].pc = "idle"
    /\ \E msg \in EndpointMessages, body \in Bodies :
         conc' = IF body = "form"
                 THEN [conc EXCEPT !.running = i,
                                   !.req[i] = Request("ready", msg, body, <<>>, FALSE, NoPayload)]
                 ELSE [conc EXCEPT !.running = IF Yields("request.json") THEN 0 ELSE i,
                                   !.req[i] = Request("parsing", msg, body, <<>>, FALSE, NoPayload)]
    /\ UNCHANGED <<session, hasImage>>
    /\ EndpointFrame

\* main.py lines 84-87: the body has arrived and the coroutine is resumed; an
\* exception here is outside the try statement of line 95 and leaves chat_endpoint.
ParseBody(i) ==
    /\ conc.running \in {0, i}
    /\ conc.req[i].pc = "parsing"
    /\ conc' = IF body_error(conc.req[i].body) = ""
               THEN [conc EXCEPT !.running = i, !.req[i].pc = "ready"]
               ELSE [conc EXCEPT !.running = 0,
                                 !.req[i] = [NoRequest EXCEPT !.pc = "done", !.resp = Unhandled]]
    /\ UNCHANGED <<session, hasImage>>
    /\ EndpointFrame

\* main.py line 91 and orchestrator.py lines 489-490: the session's context is
\* fetched and orchestrate reads pending_task and asked_once into its locals.
ReadSession(i) ==
    /\ conc.running = i
    /\ conc.req[i].pc = "ready"
    /\ conc' = [conc EXCEPT !.running = IF Yields("orchestrate") THEN 0 ELSE i,
                            !.req[i].pc = "turn",
                            !.req[i].pending = session.pending_task,
                            !.req[i].was_asked = session.asked_once]
    /\ UNCHANGED <<session, hasImage>>
    /\ EndpointFrame

\* orchestrator.py lines 492-921 and main.py lines 110-117: the turn goes on
\* with what it read, stores or clears the pending task and ends; the reply, or
\* the payload of handle_exception, is the response.
FinishTurn(i) ==
    /\ conc.running \in {i} \cup (IF Yields("orchestrate") THEN {0} ELSE {})
    /\ conc.req[i].pc = "turn"
    /\ LET q == conc.req[i]
           seen == [session EXCEPT !.pending_task = q.pending, !.asked_once = q.was_asked]
           Responses(out) ==
               IF out.kind = "raise"
               THEN UNION { handle_exception(out.exc, development) : development \in BOOLEAN }
               ELSE { Payload(200, TRUE, "") }
           Ends == UNION { { [sess |-> r.sess, saved_image |-> r.saved_image, resp |-> resp]
                               : resp \in Responses(r.out) }
                           : r \in orchestrate(seen, q.msg, NoAttachment, Env) }
       IN \E e \in Ends :
            /\ session' = e.sess
            /\ hasImage' = (hasImage \/ e.saved_image)
            /\ conc' = [conc EXCEPT !.running = 0,
                                    !.req[i] = [NoRequest EXCEPT !.pc = "done", !.resp = e.resp]]
    /\ EndpointFrame

\* The response is sent and the request is over.
Send(i) ==
    /\ conc.req[i].pc = "done"
    /\ conc' = [conc EXCEPT !.req[i] = NoRequest]
    /\ UNCHANGED <<session, hasImage>>
    /\ EndpointFrame

EndpointNext ==
    \E i \in Clients :
        Receive(i) \/ ParseBody(i) \/ ReadSession(i) \/ FinishTurn(i) \/ Send(i)

EndpointSpec == EndpointInit /\ [][EndpointNext]_vars

\* ------------------------------------------------------------------ claims
\* s occurs in the string t (as consecutive words).
Contains(t, s) ==
    \E i \in 0..(Len(t) - Len(s)) : \A j \in 1..Len(s) : t[i + j] = s[j]

\* The router was called in the last turn and returned na.
RouterSaid(na) ==
    /\ last.out.router_calls = 1
    /\ last.out.router.exc = ""
    /\ last.out.router.next_action = na

\* The session before the last turn was in S0 / had a pending task.
PreFresh == ~last.pre.asked_once /\ last.pre.pending_task = <<>>
PreAwaiting == last.pre.asked_once /\ last.pre.pending_task # <<>>

\* C1: within one task cycle (from the turn that starts without a pending task
\* to the execution or abandonment of the task) at most one reply asks the
\* user for more information.
C1_AtMostOneQuestion == cycleAsks <= 1

\* C2: with a question already asked and a task pending, a router answer of
\* ask does not produce a question: the slots of the message are merged into
\* the pending task, a prompt is composed with defaults for the unset slots,
\* and that task is handed to the execution adapter.
C2_ForcedRun ==
    (PreAwaiting /\ RouterSaid("ask")) =>
        /\ last.out.kind \in {"image", "raise"}
        /\ ~last.out.need_more_info
        /\ last.out.dispatched # <<>>
        /\ last.out.origin = "pending"
        /\ Len(last.out.calls) >= 1
        /\ LET d  == last.out.dispatched[1]
               p  == last.pre.pending_task[1]
               sl == _extract_slots_from_message(last.msg)
           IN /\ d.intent = p.intent /\ d.object = p.object
              /\ \A f \in {"style", "pose", "bg", "mood"} :
                    d[f] = IF IsSet(sl[f]) THEN sl[f] ELSE p[f]
              /\ IsSet(d.prompt_en)
              /\ Contains(d.prompt_en, d.object)
              /\ Contains(d.prompt_en, IF IsSet(d.style) THEN d.style ELSE <<"illustration">>)
              /\ Contains(d.prompt_en, IF IsSet(d.bg) THEN d.bg ELSE <<"white", "background">>)
              /\ Contains(d.prompt_en, IF IsSet(d.pose) THEN d.pose ELSE <<"natural", "pose">>)

C2_Witness ==
    /\ PreAwaiting /\ RouterSaid("ask")
    /\ last.out.kind = "image"
    /\ "photo" \in last.msg
    /\ last.out.dispatched[1].style = <<"photo">>
    /\ ~IsSet(last.out.dispatched[1].pose)

\* C3 as stated: from S0, a router answer of ask stores a pending task, sets
\* asked_once, returns one clarifying question and calls no image tool in the turn.
C3_AskStopsNoToolCall ==
    (PreFresh /\ RouterSaid("ask")) =>
        /\ session.pending_task # <<>>
        /\ session.asked_once
        /\ last.out.kind = "question" /\ last.out.need_more_info
        /\ last.out.calls = <<>>

\* C3 amended: from S0, a router answer of ask stores a pending task, sets
\* asked_once and returns one clarifying question; nothing is dispatched after
\* the router's decision, and the only tool call the turn can hold is the
\* immediate attempt for an attached image or a "make a new one" message,
\* made before the router was consulted.
C3_AskStops ==
    (PreFresh /\ RouterSaid("ask")) =>
        /\ session.pending_task = <<_create_basic_task(last.msg)>>
        /\ session.asked_once
        /\ last.out.kind = "question" /\ last.out.need_more_info
        /\ cycleAsks = 1
        /\ last.out.dispatched = <<>>
        /\ last.out.calls \in {<<>>, <<"edit_image_tool">>, <<"generate_image_tool">>}
        /\ (last.out.calls = <<"edit_image_tool">>) =
              (last.att.image /\ ~_wants_generate_override(last.msg))
        /\ (last.out.calls = <<"generate_image_tool">>) = _wants_generate_override(last.msg)

C3_Witness ==
    /\ PreFresh /\ RouterSaid("ask")
    /\ last.out.kind = "question"
    /\ "cat" \in last.msg
    /\ session.pending_task # <<>> /\ session.pending_task[1].object = <<"cat">>
    /\ last.out.calls = <<>>

\* The task the router returned in the last turn.
RouterTask == last.out.router.task[1]

\* The image of an edit is known: on the task, attached, or in the log.
ImageKnown == IsSet(RouterTask.image_path) \/ last.att.image \/ hasImage

C5_DispatchReturnsToFresh ==
    last.out.dispatched # <<>> =>
        (session.pending_task = <<>> /\ ~session.asked_once)

\* C6: asked_once is true exactly when pending_task is non-null.
C6_AskedIffPending ==
    session.asked_once <=> (session.pending_task # <<>>)

\* C7: with a task pending, a router answer of chat clears the pending task,
\* returns a conversational reply and dispatches nothing.
C7_ChatAbandons ==
    (last.pre.pending_task # <<>> /\ RouterSaid("chat")) =>
        /\ session.pending_task = <<>>
        /\ last.out.kind = "chat"
        /\ last.out.dispatched = <<>>

\* The collaborator of the router call failed: no key is configured, it raised,
\* or it returned text that is not JSON.
CollaboratorFailed ==
    \/ (~rcall.openaiKey /\ ~rcall.geminiKey)
    \/ rcall.resp.kind \in {"raise", "text"}

\* C8: when the collaborator fails, route_with_llm does not raise and returns
\* run with the pending task that was passed, or chat when none was; never ask.
C8_RouterFallback ==
    (rcall.called /\ CollaboratorFailed) =>
        /\ rcall.result.exc = ""
        /\ rcall.result.next_action # "ask"
        /\ (rcall.pending # <<>> =>
              rcall.result.next_action = "run" /\ rcall.result.task = rcall.pending)
        /\ (rcall.pending = <<>> =>
              rcall.result.next_action = "chat" /\ rcall.result.task = <<>>)

C8_Witness ==
    /\ rcall.called /\ rcall.openaiKey
    /\ rcall.resp.kind = "text"
    /\ rcall.pending # <<>>
    /\ rcall.result.next_action = "run"

\* The collaborator answered with a JSON object that lacks a required field.
LacksRequired ==
    /\ rcall.called /\ (rcall.openaiKey \/ rcall.geminiKey)
    /\ rcall.resp.kind = "object"
    /\ \/ rcall.resp.na \notin {"chat", "ask", "run"}
       \/ (rcall.resp.na = "run" /\ rcall.resp.task = <<>>)
       \/ (rcall.resp.na = "run" /\ rcall.resp.task # <<>>
             /\ rcall.resp.task[1].intent \notin {"generate", "edit"})

\* C9: when the parsed JSON lacks a required field, route_with_llm does not
\* raise and returns run with the pending task that was passed, else chat.
C9_MalformedFallback ==
    LacksRequired =>
        /\ rcall.result.exc = ""
        /\ (rcall.pending # <<>> =>
              rcall.result.next_action = "run" /\ rcall.result.task = rcall.pending)
        /\ (rcall.pending = <<>> => rcall.result.next_action = "chat")

\* C10: with no API key configured and no pending task, a turn that reaches
\* the router is answered conversationally and does not raise.
C10_OutageAnswersChat ==
    (~openaiKey /\ ~geminiKey /\ last.pre.pending_task = <<>>
       /\ last.out.router_calls = 1) =>
        /\ last.out.exc = ""
        /\ last.out.kind \in {"chat", "general"}

\* The last turn got past the store lookups that open orchestrate.
PastPrelude == ~Idle /\ last.out.exc # "StoreError"

\* C11: the turn that follows the clarifying question ends with no pending
\* task, whatever the message, the attachments and the router's result: the
\* task was executed or abandoned.
C11_PendingWaitsOneTurn ==
    (PastPrelude /\ PreAwaiting) => session.pending_task = <<>>

\* C12: a turn that carries a mask or a selection makes no router call,
\* returns no request for more information and ends in the edit's result.
C12_AttachmentEditRuns ==
    (PastPrelude /\ (last.att.mask \/ last.att.selection)
       /\ last.out.kind \notin {"onboarding", "refusal"}) =>
        /\ last.out.router_calls = 0
        /\ ~last.out.need_more_info
        /\ last.out.kind \in {"image", "raise"}

\* C13: a message that matches a prohibited pattern is answered with the
\* refusal in every session state; no router call is made, no tool is called,
\* no task is created and the session is left as it was.
C13_ProhibitedRefused ==
    (PastPrelude /\ detect_prohibited(last.msg)) =>
        /\ last.out.kind = "refusal"
        /\ last.out.router_calls = 0
        /\ last.out.calls = <<>>
        /\ last.out.dispatched = <<>>
        /\ session.pending_task = last.pre.pending_task

\* The slots the merge writes.
SlotNames == {"style", "pose", "bg", "mood"}

\* C14: after _fill_defaults a task with intent generate or edit is complete,
\* whatever fields were set before.
C14_FilledIsComplete ==
    pcall.op = "_fill_defaults" => is_complete(pcall.out)

C16_RunDispatchesPending ==
    (PreAwaiting /\ RouterSaid("run") /\ last.out.dispatched # <<>>) =>
        LET merged == MergeSlots(last.pre.pending_task[1],
                                 _extract_slots_from_message(last.msg))
            d == last.out.dispatched[1]
        IN /\ d.intent = merged.intent
           /\ d.object = merged.object
           /\ \A f \in SlotNames : d[f] = merged[f]
           /\ d.prompt_en = _build_prompt(merged)

\* C17: the pending task stored for a first-turn ask carries the style, pose
\* and background the slot extractor finds in that turn's message.
C17_PendingCarriesSlots ==
    (PreFresh /\ RouterSaid("ask") /\ session.pending_task # <<>>) =>
        \A f \in {"style", "pose", "bg"} :
            session.pending_task[1][f] = _extract_slots_from_message(last.msg)[f]

\* C18: from S0, a router answer of chat gives a conversational reply,
\* dispatches nothing and leaves asked_once and pending_task as they were.
C18_ChatStaysFresh ==
    (PreFresh /\ RouterSaid("chat")) =>
        /\ last.out.kind = "chat"
        /\ last.out.dispatched = <<>>
        /\ last.out.calls \in {<<>>, <<"edit_image_tool">>, <<"generate_image_tool">>}
        /\ session.asked_once = last.pre.asked_once
        /\ session.pending_task = last.pre.pending_task

\* C19: generate_image_tool and edit_image_tool return a dict with status ok
\* or error for every input and every failure of the image client; they do
\* not raise.
C19_ToolsNeverRaise ==
    pcall.op \in {"generate_image_tool", "edit_image_tool"} =>
        /\ pcall.out.exc = ""
        /\ pcall.out.status \in {"ok", "error"}

\* C20: adk_run returns a dict with status ok or error whether the agent is
\* initialised, missing or failing; it does not return None.
C20_AdkRunReturnsDict ==
    pcall.op = "adk_run" => pcall.out.status \in {"ok", "error"}

\* C21: two turns of the same session never overlap: while one turn stands
\* between its read of pending_task and asked_once and its set_pending_task or
\* clear_pending_task, no other turn has read them or is past its own read, and
\* the session still holds what the turn read.
C21_TurnsDoNotOverlap ==
    \A i \in Clients :
        conc.req[i].pc = "turn" =>
            /\ \A j \in Clients \ {i} : conc.req[j].pc \notin {"ready", "turn"}
            /\ session.pending_task = conc.req[i].pending
            /\ session.asked_once = conc.req[i].was_asked

\* A turn has read a pending task while another request of the session is in
\* flight, waiting for its body.
C21_Witness ==
    \E i \in Clients, j \in Clients :
        /\ i # j
        /\ conc.req[i].pc = "turn"
        /\ conc.req[i].pending # <<>>
        /\ conc.req[j].pc = "parsing"

\* C22: when the synthesis of a run turn fails or returns an error result,
\* orchestrate ends the turn by returning a reply and not by raising.
C22_RunFailureReplies ==
    (~Idle /\ last.out.dispatched # <<>> /\ last.out.status # "ok") =>
        last.out.kind # "raise"

\* C23: every exception raised while a /chat request is handled is answered
\* with a payload that holds a reply and an error_code.
C23_ErrorPayload ==
    \A i \in Clients :
        (conc.req[i].pc = "done" /\ conc.req[i].resp.status = 500) =>
            /\ conc.req[i].resp.reply
            /\ conc.req[i].resp.error_code # ""

\* C24: a turn in which a store operation fails (appending a message, looking
\* up or creating the user or the chat session) still returns its reply.
C24_StoreFailureReplies ==
    ~Idle => ~(last.out.kind = "raise" /\ last.out.exc = "StoreError")

\* C25: _fill_defaults is idempotent (a second application with the same
\* message changes nothing), keeps every slot that was set, and leaves object
\* and intent set.
C25_FillDefaultsIdempotent ==
    pcall.op = "_fill_defaults" =>
        LET t == pcall.in.task
            u == pcall.out
        IN /\ _fill_defaults(u, pcall.in.msg) = u
           /\ \A f \in SlotNames \cup {"object"} : IsSet(t[f]) => u[f] = t[f]
           /\ u.intent = t.intent
           /\ u.intent \in {"generate", "edit"}
           /\ IsSet(u.object)

\* _fill_defaults was applied to a task with some slots set and others not,
\* and it filled the unset ones.
C25_Witness ==
    /\ pcall.op = "_fill_defaults"
    /\ IsSet(pcall.in.task.style)
    /\ ~IsSet(pcall.in.task.object)
    /\ ~IsSet(pcall.in.task.bg)
    /\ pcall.out # pcall.in.task

\* C26: for a message with a don't-care marker _extract_slots_from_message
\* returns values for style, pose and background together, whatever other slot
\* keywords the message holds.
C26_DontCareBundle ==
    (pcall.op = "_extract_slots_from_message" /\ "dontcare" \in pcall.in.msg) =>
        /\ IsSet(pcall.out.style)
        /\ IsSet(pcall.out.pose)
        /\ IsSet(pcall.out.bg)

\* The extractor was called on a message that holds a don't-care marker and a
\* slot keyword.
C26_Witness ==
    /\ pcall.op = "_extract_slots_from_message"
    /\ "dontcare" \in pcall.in.msg
    /\ pcall.in.msg \cap {"photo", "sitting"} # {}
    /\ IsSet(pcall.out.bg)

\* The opening words of the five templates of _build_prompt.
TemplateOpening(name) ==
    CASE name = "anime" -> <<"anime", "style", "illustration">>
      [] name = "illustration" -> <<"flat", "vector", "illustration">>
      [] name = "sketch" -> <<"pencil", "sketch">>
      [] name = "3d" -> <<"3D", "render">>
      [] OTHER -> <<"highly", "detailed", "photorealistic", "photograph">>

\* C27: _build_prompt returns a prompt for every combination of set and unset
\* fields, the prompt holds the task's object (the literal default when it is
\* unset), and the template is the one of the lower-cased style, every style
\* outside photo/anime/illustration/sketch/3d, an unset style included, taking
\* the photo template.
C27_BuildPromptTemplates ==
    pcall.op = "_build_prompt" =>
        LET t == pcall.in.task
            st == LowerAll(t.style)
            name == IF st \in {<<"anime">>, <<"illustration">>, <<"sketch">>, <<"3d">>}
                    THEN st[1] ELSE "photo"
        IN /\ IsSet(pcall.out)
           /\ Contains(pcall.out, Or(t.object, <<"subject">>))
           /\ SubSeq(pcall.out, 1, Len(TemplateOpening(name))) = TemplateOpening(name)

\* C28: every run decision route_with_llm builds from the collaborator's
\* response carries a task whose style is one of anime, illustration, photo, 3d
\* and whose size is not empty.
C28_RunTaskNormalized ==
    (/\ rcall.called
     /\ rcall.result.exc = ""
     /\ rcall.result.next_action = "run"
     /\ ~rcall.result.from_pending) =>
        /\ rcall.result.task # <<>>
        /\ rcall.result.task[1].style \in {<<"anime">>, <<"illustration">>, <<"photo">>, <<"3d">>}
        /\ IsSet(rcall.result.task[1].size)

\* C29: every generate task that orchestrate hands to the image synthesis goes
\* with a non-empty prompt, composed with _build_prompt when the task came
\* without prompt_en, through the agent runner as well as through the direct
\* tools.
C29_GeneratePromptSet ==
    (/\ ~Idle
     /\ last.out.dispatched # <<>>
     /\ last.out.dispatched[1].intent = "generate") =>
        /\ IsSet(last.out.prompt)
        /\ ~IsSet(last.out.dispatched[1].prompt_en) =>
               last.out.prompt = _build_prompt(last.out.dispatched[1])

\* C30: when the agent is not installed, not initialised or switched off, a run
\* turn ends with a direct call of generate_image_tool or edit_image_tool, and
\* the result of that call is the outcome of the adapter.
C30_AdkFallsBack ==
    (/\ ~Idle
     /\ last.out.dispatched # <<>>
     /\ adk \in {"disabled", "unavailable"}) =>
        /\ last.out.calls # <<>>
        /\ last.out.calls[Len(last.out.calls)] = ToolName(last.out.dispatched[1])
        /\ last.out.status \in {"ok", "error"}

\* C31: whenever a turn invokes the image synthesis (run branch, attachment
\* fast path, new-image fast path) the session's pending task has been cleared
\* before, so a turn that ends with the synthesis, successful or failed, leaves
\* no pending task behind.
C31_NoPendingOutlivesExecution ==
    (/\ ~Idle
     /\ last.out.calls # <<>>
     /\ (last.out.kind = "image" \/ last.out.exc = "ImageGenerationError")) =>
        session.pending_task = <<>>

\* C32: a request that supplies no session_id gets the value of its sid cookie,
\* or a fresh identifier when it has no cookie, so two clients that send
\* neither a session_id nor a cookie get different identifiers (and with them
\* different SessionContexts).
C32_FreshSessionPerClient ==
    pcall.op = "get_session_id" =>
        LET a == pcall.in.a
            b == pcall.in.b
            Bare(q) == ~q.field.given /\ ~IsSet(q.cookie)
        IN /\ (~a.field.given /\ IsSet(a.cookie)) => pcall.out.a = a.cookie
           /\ (~b.field.given /\ IsSet(b.cookie)) => pcall.out.b = b.cookie
           /\ Bare(a) => pcall.out.a = <<"uuid", "a">>
           /\ Bare(b) => pcall.out.b = <<"uuid", "b">>
           /\ (Bare(a) /\ Bare(b)) => pcall.out.a # pcall.out.b

\* C33: route_with_llm of llm_router.py never returns ask when the collaborator
\* is unconfigured, raises or returns unparseable output; without a pending
\* task it returns chat, and the first turn of chat_service_new.orchestrate
\* then opens no clarification cycle.
C33_LlmRouterNeverAsks ==
    (/\ pcall.op = "llm_router.route_with_llm"
     /\ \/ (~pcall.in.openaiKey /\ ~pcall.in.geminiKey)
        \/ pcall.in.resp.kind \in {"raise", "text"}) =>
        /\ pcall.out.result.next_action # "ask"
        /\ pcall.in.pending = <<>> =>
              (pcall.out.result.next_action = "chat" /\ ~pcall.out.asks)

\* C34: a turn whose message is exactly a regenerate request, on a session
\* whose history holds an image, reaches the regenerate handling and makes a
\* new image from the most recent task.
C34_RegenerateHandled ==
    (/\ ~Idle
     /\ last.msg = {"regenerate"}
     /\ hasImage
     /\ last.out.exc # "StoreError") =>
        /\ last.out.origin = "regenerate"
        /\ "generate_image_tool" \in { last.out.calls[i] : i \in DOMAIN last.out.calls }

\* C35: in every reachable session state a pending task implies asked_once,
\* and no turn takes the branch of orchestrate for a pending task about which
\* nothing was asked.
C35_PendingImpliesAsked ==
    /\ session.pending_task # <<>> => session.asked_once
    /\ last.out.decided # "pending_not_asked"

\* A turn has stored a pending task, and the next turn finds it.
C35_Witness ==
    /\ ~Idle
    /\ last.pre.pending_task # <<>>
    /\ last.pre.asked_once
    /\ last.out.decided = "second_turn"

\* C36: every run decision that reaches the execution branch carries a task,
\* and after the minimum-field check the task has its object set and an intent
\* of generate or edit.
C36_RunCarriesTask ==
    (~Idle /\ last.out.origin # "") =>
        /\ last.out.task # <<>>
        /\ IsSet(last.out.task[1].object)
        /\ last.out.task[1].intent \in {"generate", "edit"}

\* The router answered run with a task without object, and the execution
\* branch filled it.
C36_Witness ==
    /\ ~Idle
    /\ RouterSaid("run")
    /\ last.out.router.task # <<>>
    /\ ~IsSet(last.out.router.task[1].object)
    /\ last.out.origin = "router"
    /\ last.out.task # <<>>
    /\ IsSet(last.out.task[1].object)

FastEditSucceeded ==
    /\ ~Idle
    /\ last.att.image
    /\ ~_wants_generate_override(last.msg)
    /\ last.out.calls = <<"edit_image_tool">>
    /\ last.out.kind = "image"
    /\ last.out.origin = ""

\* C38: when a turn carries an image, the message does not ask for a new
\* image and the immediate edit succeeds, the edited image is returned without
\* a call of the router, and pending_task and asked_once are left as they
\* were, whatever the session state was.
C38_FastEditFrame ==
    FastEditSucceeded =>
        /\ last.out.router_calls = 0
        /\ last.out.dispatched = <<>>
        /\ session.pending_task = last.pre.pending_task
        /\ session.asked_once = last.pre.asked_once

\* The immediate edit succeeded on a session that had a task pending.
C38_Witness ==
    /\ FastEditSucceeded
    /\ last.pre.pending_task # <<>>
    /\ last.pre.asked_once
    /\ session.pending_task # <<>>

====
